---------------------------- MODULE Spec2Model ----------------------------
(***************************************************************************)
(* Model of the BESS financial engine (src/src/engine.py, derived.py,      *)
(* models.py) and of its KPI engine (src/src/kpis.py).                      *)
(*                                                                         *)
(* Numbers.  The program computes in Python floats.  The model computes    *)
(* in exact rational arithmetic: a number is a record [n, d] in lowest     *)
(* terms with d > 0.  Every equality of the model is therefore an equality *)
(* of the real-valued quantities the code's expressions denote; rounding  *)
(* of the last bits of a double is not modelled.                           *)
(*                                                                         *)
(* Optional values.  Python's None is the empty tuple << >> and a present  *)
(* value x is the one-element tuple << x >>; float("nan") is the record    *)
(* [n |-> 0, d |-> 0].                                                   *)
(***************************************************************************)
EXTENDS Integers, Sequences, FiniteSets, TLC

(***************************************************************************)
(* Bounds of the model.                                                    *)
(***************************************************************************)
\* largest project_life drawn (the schema allows 1..60)
MaxLife == 3
\* largest debt_tenor_years drawn (the schema allows 0..60)
MaxTenor == 2
\* largest tolling_1_start_year / tolling_1_end_year drawn (schema: 0..60)
MaxToll == 2
\* longest table handed to calc_kpis
MaxLen == 3
\* iterations of the bisection loop of _irr_first_root (the code runs 120)
MaxIter == 3

(***************************************************************************)
(* Exact rational arithmetic standing for the float operators + - * / ** < *)
(***************************************************************************)
Abs(x) == IF x < 0 THEN -x ELSE x

RECURSIVE GCD(_, _)
GCD(a, b) == IF b = 0 THEN a ELSE GCD(b, a % b)

\* n/d in lowest terms, d > 0
R(n, d) == LET g == GCD(Abs(n), d) IN [n |-> n \div g, d |-> d \div g]

Zero == [n |-> 0, d |-> 1]
One == [n |-> 1, d |-> 1]
NaN == [n |-> 0, d |-> 0]

RNeg(a) == [n |-> -a.n, d |-> a.d]

RAdd(a, b) ==
    LET g == GCD(a.d, b.d)
    IN  R(a.n * (b.d \div g) + b.n * (a.d \div g), (a.d \div g) * b.d)

RSub(a, b) == RAdd(a, RNeg(b))

RMul(a, b) ==
    LET g1 == GCD(Abs(a.n), b.d)
        g2 == GCD(Abs(b.n), a.d)
    IN  [n |-> (a.n \div g1) * (b.n \div g2), d |-> (a.d \div g2) * (b.d \div g1)]

\* 1/b for b # 0
RInv(b) == IF b.n > 0 THEN [n |-> b.d, d |-> b.n] ELSE [n |-> -b.d, d |-> -b.n]

RDiv(a, b) == RMul(a, RInv(b))

RLt(a, b) ==
    LET g == GCD(a.d, b.d)
    IN  a.n * (b.d \div g) < b.n * (a.d \div g)

RLe(a, b) == ~RLt(b, a)

RMin(a, b) == IF RLt(b, a) THEN b ELSE a
RMax(a, b) == IF RLt(a, b) THEN b ELSE a

RECURSIVE RPow(_, _)
RPow(a, k) == IF k <= 0 THEN One ELSE RMul(a, RPow(a, k - 1))

\* the float of an int
Int2R(i) == [n |-> i, d |-> 1]

IMax(a, b) == IF a < b THEN b ELSE a
IMin(a, b) == IF a < b THEN a ELSE b

\* Python's None / a present value
None == << >>
Some(x) == << x >>

VARIABLES
    d_land_cost,        \* the land cost entered in the app (session key d_land_cost)
    pj,                 \* ProjectData
    cx,                 \* CapexOpex
    fp,                 \* FinancialParameters
    rv,                 \* Revenues
    mf,                 \* MunicipalityFees
    apply_degradation,  \* run_financial_model's flag
    pc,                 \* position: "start", "loop", "done"; "kpi", "kpi_done";
                        \* "irr", "irr_loop", "irr_done"
    pre,                \* the locals of run_financial_model set before the year loop
    y,                  \* the year of the tax & cash-flow loop
    loss_cf,            \* the loss carry-forward threaded through that loop
    rows,               \* the rows appended so far
    df,                 \* the table returned by run_financial_model / given to calc_kpis
    out,                \* the dictionary returned by calc_kpis
    irr_frame           \* the locals of a call of _irr_first_root

vars == <<d_land_cost, pj, cx, fp, rv, mf, apply_degradation, pc, pre, y, loss_cf, rows,
          df, out, irr_frame>>

(***************************************************************************)
(* derived.py                                                              *)
(***************************************************************************)
derive_project(p) ==
    LET operating_days == RMul(Int2R(365), RSub(One, p.grid_system_unavailability))
        cycled_energy == RMul(p.nominal_energy_mwh, RSub(p.soc_max, p.soc_min))
    IN  [operating_days_per_year |-> operating_days,
         cycled_energy_mwh |-> cycled_energy,
         annual_cycled_energy_mwh |-> RMul(RMul(cycled_energy, p.cycles_per_day), operating_days)]

\* mutant of derive_capex_opex: the decommissioning cost is booked with the
\* yearly operating costs
DeriveCapexOpexWithDecommissioning(p, c) ==
    LET total_om == RAdd(RAdd(c.fixed_om_per_mw_year, c.insurance_grid_per_mw_year),
                         c.decommissioning_per_mw)
    IN  [total_capex_eur |-> RMul(p.nominal_energy_mwh, c.initial_capex_per_mw),
         total_om_per_mw_year |-> total_om,
         opex_eur_year |-> RMul(total_om, p.nominal_power_mw)]

derive_capex_opex(p, c) ==
    LET total_om == RAdd(c.fixed_om_per_mw_year, c.insurance_grid_per_mw_year)
    IN  [total_capex_eur |-> RMul(p.nominal_energy_mwh, c.initial_capex_per_mw),
         total_om_per_mw_year |-> total_om,
         opex_eur_year |-> RMul(total_om, p.nominal_power_mw)]

derive_financial(f, total_capex_eur) ==
    LET debt_amount == RMul(f.debt_pct_on_capex, total_capex_eur)
        E == RSub(One, f.debt_pct_on_capex)
        D == f.debt_pct_on_capex
    IN  [total_corporate_tax_rate |-> RAdd(f.ires, f.irap),
         discount_rate_project |->
             RAdd(RMul(E, f.discount_rate_equity),
                  RMul(RMul(D, f.interest_rate), RSub(One, f.ires))),
         debt_amount_eur |-> debt_amount,
         equity_amount_eur |-> RSub(total_capex_eur, debt_amount)]

(***************************************************************************)
(* engine.py: helpers and the debt schedule                                *)
(***************************************************************************)
degrade_factor(rate, year) == RPow(RSub(One, rate), IMax(0, year - 1))

\* mutant of annuity_payment: the payment ignores the interest rate
AnnuityPaymentNoInterest(P, r, n) ==
    IF n <= 0 THEN Zero ELSE RDiv(P, Int2R(n))

annuity_payment(P, r, n) ==
    IF n <= 0 THEN Zero
    ELSE IF RLe(r, Zero) THEN RDiv(P, Int2R(n))
    ELSE LET g == RPow(RAdd(One, r), n)
         IN  RDiv(RMul(P, RMul(r, g)), RSub(g, One))

\* the all-zero row of the schedule
ZeroDebtRow(year) ==
    [Year |-> year, Debt_Open |-> Zero, Interest |-> Zero, Principal |-> Zero,
     Debt_Service |-> Zero, Debt_Close |-> Zero]

\* the principal repaid in a year 1..n, given the opening balance
AnnuityPrincipal(pay, interest, bal) == RMin(RMax(Zero, RSub(pay, interest)), bal)
EqualPrincipal(principal_fixed, bal) == RMin(principal_fixed, bal)

\* mutant of AmortRow: the balance is not reduced by the principal
AmortRowInterestOnly(year, bal, r, principal) ==
    LET interest == RMul(bal, r)
    IN  [Year |-> year, Debt_Open |-> bal, Interest |-> interest, Principal |-> principal,
         Debt_Service |-> RAdd(interest, principal), Debt_Close |-> bal]

\* the row of a year 1..n
AmortRow(year, bal, r, principal) ==
    LET interest == RMul(bal, r)
    IN  [Year |-> year, Debt_Open |-> bal, Interest |-> interest, Principal |-> principal,
         Debt_Service |-> RAdd(interest, principal), Debt_Close |-> RSub(bal, principal)]

\* The loop "for y in years" of one amortization branch: the rows of years
\* year..project_life appended to acc, bal being the running balance.
RECURSIVE DebtLoop(_, _, _, _, _, _, _, _)
DebtLoop(year, bal, acc, debt_amount, n, r, amort, project_life) ==
    IF year > project_life THEN acc
    ELSE IF year = 0
    THEN DebtLoop(1, bal, Append(acc, [ZeroDebtRow(0) EXCEPT !.Debt_Close = debt_amount]),
                  debt_amount, n, r, amort, project_life)
    ELSE IF 1 <= year /\ year <= n
    THEN LET principal ==
                 IF amort = "annuity"
                 THEN AnnuityPrincipal(annuity_payment(debt_amount, r, n), RMul(bal, r), bal)
                 ELSE EqualPrincipal(RDiv(debt_amount, Int2R(n)), bal)
             row == AmortRow(year, bal, r, principal)
         IN  DebtLoop(year + 1, row.Debt_Close, Append(acc, row),
                      debt_amount, n, r, amort, project_life)
    ELSE DebtLoop(year + 1, bal, Append(acc, ZeroDebtRow(year)),
                  debt_amount, n, r, amort, project_life)

\* mutant of debt_schedule: the test "n <= 0 or debt_amount <= 0" is dropped
DebtScheduleNoGuard(debt_amount, f, project_life) ==
    DebtLoop(0, debt_amount, << >>, debt_amount, f.debt_tenor_years, f.interest_rate,
             f.amortization_type, project_life)

\* _debt_schedule: the rows of years 0..project_life; the row of year t is at t + 1
debt_schedule(debt_amount, f, project_life) ==
    LET n == f.debt_tenor_years
        r == f.interest_rate
    IN  IF n <= 0 \/ RLe(debt_amount, Zero)
        THEN [i \in 1..(project_life + 1) |-> ZeroDebtRow(i - 1)]
        ELSE DebtLoop(0, debt_amount, << >>, debt_amount, n, r, f.amortization_type, project_life)


(***************************************************************************)
(* engine.py: run_financial_model, the locals set before the year loop     *)
(***************************************************************************)
\* getattr(cx, "land_cost_eur", 0.0): CapexOpex declares no such field, so the
\* attribute is absent and the default is read
land_cost_of(c) == IF "land_cost_eur" \in DOMAIN c THEN c.land_cost_eur ELSE Zero

\* getattr(rv, "terminal_value_enabled", False): Revenues declares no such field
terminal_value_enabled_of(r) == FALSE

\* getattr(rv, "terminal_value_per_mw", 0.0): likewise absent
terminal_value_per_mw_of(r) == Zero

\* the list aug_years
aug_years_of(c, project_life) ==
    (IF c.augmentation_year_1 # 0 /\ c.augmentation_year_1 <= project_life
     THEN <<c.augmentation_year_1>> ELSE << >>)
    \o
    (IF c.augmentation_year_2 # 0 /\ c.augmentation_year_2 <= project_life
        /\ c.augmentation_year_2 # c.augmentation_year_1
     THEN <<c.augmentation_year_2>> ELSE << >>)

\* the sum of f(s[i]) over a sequence of numbers
RECURSIVE RSum(_)
RSum(s) == IF s = << >> THEN Zero ELSE RAdd(Head(s), RSum(Tail(s)))

\* augmentation_by_year[year]
augmentation_of(year, aug_years, aug_cost_each) ==
    RSum([i \in 1..Len(aug_years) |-> IF aug_years[i] = year THEN aug_cost_each ELSE Zero])

\* reserve_yield = 0.0
reserve_yield == Zero

\* mutant of ReserveContrib: the annual contribution is paid in every year,
\* the last one included, whatever the balance
ReserveContribEveryYear(year, balance, target, annual_contribution, project_life) ==
    annual_contribution

\* the contribution of a year >= 1, balance being the balance after interest
ReserveContrib(year, balance, target, annual_contribution, project_life) ==
    IF year < project_life /\ RLt(balance, target)
    THEN RMin(annual_contribution, RSub(target, balance))
    ELSE Zero

ZeroReserveRow ==
    [Reserve_Contribution |-> Zero, Reserve_Interest |-> Zero,
     Reserve_Release |-> Zero, Reserve_Balance |-> Zero]

\* mutant of ReserveLoop: the balance is kept in the reserve at the end of the
\* project, nothing is released
RECURSIVE ReserveLoopNoRelease(_, _, _, _, _, _)
ReserveLoopNoRelease(year, balance, acc, target, annual_contribution, project_life) ==
    IF year > project_life THEN acc
    ELSE IF year = 0
    THEN ReserveLoopNoRelease(1, balance, Append(acc, ZeroReserveRow), target,
                              annual_contribution, project_life)
    ELSE LET interest == RMul(balance, reserve_yield)
             b1 == RAdd(balance, interest)
             contrib == ReserveContrib(year, b1, target, annual_contribution, project_life)
             b2 == RAdd(b1, contrib)
             row == [Reserve_Contribution |-> RNeg(contrib),
                     Reserve_Interest |-> interest,
                     Reserve_Release |-> Zero,
                     Reserve_Balance |-> b2]
         IN  ReserveLoopNoRelease(year + 1, b2, Append(acc, row), target,
                                  annual_contribution, project_life)

\* The loop "for y in years" of the cash reserve: the entries of years
\* year..project_life appended to acc, balance being the running balance.
RECURSIVE ReserveLoop(_, _, _, _, _, _)
ReserveLoop(year, balance, acc, target, annual_contribution, project_life) ==
    IF year > project_life THEN acc
    ELSE IF year = 0
    THEN ReserveLoop(1, balance, Append(acc, ZeroReserveRow), target,
                     annual_contribution, project_life)
    ELSE LET interest == RMul(balance, reserve_yield)
             b1 == RAdd(balance, interest)
             contrib == ReserveContrib(year, b1, target, annual_contribution, project_life)
             b2 == RAdd(b1, contrib)
             row == [Reserve_Contribution |-> RNeg(contrib),
                     Reserve_Interest |-> interest,
                     Reserve_Release |-> IF year = project_life THEN b2 ELSE Zero,
                     Reserve_Balance |-> b2]
         IN  ReserveLoop(year + 1, IF year = project_life THEN Zero ELSE b2,
                         Append(acc, row), target, annual_contribution, project_life)

\* mutant of reserve_by_year: the target is spread over project_life years
ReserveByYearOffByOne(target, project_life) ==
    IF RLt(Zero, target) /\ project_life > 1
    THEN ReserveLoop(0, Zero, << >>, target,
                     RDiv(target, Int2R(project_life)), project_life)
    ELSE [i \in 1..(project_life + 1) |-> ZeroReserveRow]

\* the four reserve_*_by_year dictionaries; the entry of year t is at t + 1
reserve_by_year(target, project_life) ==
    IF RLt(Zero, target) /\ project_life > 1
    THEN ReserveLoop(0, Zero, << >>, target,
                     RDiv(target, Int2R(project_life - 1)), project_life)
    ELSE [i \in 1..(project_life + 1) |-> ZeroReserveRow]

\* mutant of depreciation_of: an augmentation tranche is charged in every year
\* from its own year on
DepreciationNoWindowEnd(year, capex0, aug_years, aug_cost_each, dep_life) ==
    RAdd(IF 1 <= year /\ (year - 1) < dep_life
         THEN RDiv(capex0, Int2R(dep_life)) ELSE Zero,
         RSum([i \in 1..Len(aug_years) |->
                  IF aug_years[i] <= year
                  THEN RDiv(aug_cost_each, Int2R(dep_life)) ELSE Zero]))

\* dep_by_year[year]
depreciation_of(year, capex0, aug_years, aug_cost_each, dep_life) ==
    RAdd(IF 1 <= year /\ (year - 1) < dep_life
         THEN RDiv(capex0, Int2R(dep_life)) ELSE Zero,
         RSum([i \in 1..Len(aug_years) |->
                  IF aug_years[i] <= year /\ (year - aug_years[i]) < dep_life
                  THEN RDiv(aug_cost_each, Int2R(dep_life)) ELSE Zero]))

\* mutant of active: the end of the window is not tested
ActiveNoEnd(year, s, e) == s > 0 /\ e > 0 /\ s <= year

\* _active(y, s, e)
active(year, s, e) == s > 0 /\ e > 0 /\ s <= year /\ year <= e

f_deg_of(p, apply, year) ==
    IF apply THEN degrade_factor(p.degradation_rate, year) ELSE One

\* rev_floor[year]
rev_floor_of(p, r, apply, year) ==
    IF year = 0 THEN Zero
    ELSE LET power_y == RMul(p.nominal_power_mw, f_deg_of(p, apply, year))
             energy_y == RMul(p.nominal_energy_mwh, f_deg_of(p, apply, year))
             floor ==
                 IF r.floor_type = "CM" /\ year <= r.cm_duration_years
                 THEN RMul(RMul(RMul(r.cm_price_per_mw_year,
                                     RPow(RAdd(One, r.cm_escalation), year - 1)),
                                power_y), r.cm_share_of_mw)
                 ELSE IF r.floor_type = "MACSE" /\ year <= r.macse_duration_years
                 THEN RMul(RMul(RMul(r.macse_price_per_mwh,
                                     RPow(RAdd(One, r.macse_escalation), year - 1)),
                                energy_y), r.macse_share_of_nom_energy)
                 ELSE Zero
         IN  IF year = p.project_life /\ terminal_value_enabled_of(r)
             THEN RAdd(floor, RMul(terminal_value_per_mw_of(r), p.nominal_power_mw))
             ELSE floor

\* whether the tolling branch is taken in a year >= 1
tolling_active(r, year) == active(year, r.tolling_1_start_year, r.tolling_1_end_year)

\* rev_toll[year]
rev_toll_of(p, r, apply, year) ==
    IF year = 0 THEN Zero
    ELSE IF tolling_active(r, year)
    THEN RMul(RMul(RMul(r.tolling_base_1_per_mw_year,
                        RPow(RAdd(One, r.tolling_escalation), year - 1)),
                   RMul(p.nominal_power_mw, f_deg_of(p, apply, year))),
              RAdd(One, r.tolling_profit_sharing_pct))
    ELSE Zero

\* mutant of merchant_active: merchant revenue does not wait for the tolling end
MerchantActiveWheneverEnabled(r, year) == r.merchant_enabled

\* merchant_active in a year >= 1
merchant_active(r, year) == r.merchant_enabled /\ year > r.tolling_1_end_year

\* mutant of rev_merch_of: the merchant price is not escalated
RevMerchNoEscalation(p, r, apply, year) ==
    IF year = 0 THEN Zero
    ELSE IF merchant_active(r, year)
    THEN LET energy_y == RMul(p.nominal_energy_mwh, f_deg_of(p, apply, year))
             cycled == RMul(energy_y, RSub(p.soc_max, p.soc_min))
             annual_energy == RMul(RMul(cycled, p.cycles_per_day),
                                   derive_project(p).operating_days_per_year)
         IN  RMul(annual_energy, r.merchant_selling_price_per_mwh)
    ELSE Zero

\* rev_merch[year]
rev_merch_of(p, r, apply, year) ==
    IF year = 0 THEN Zero
    ELSE IF merchant_active(r, year)
    THEN LET energy_y == RMul(p.nominal_energy_mwh, f_deg_of(p, apply, year))
             cycled == RMul(energy_y, RSub(p.soc_max, p.soc_min))
             annual_energy == RMul(RMul(cycled, p.cycles_per_day),
                                   derive_project(p).operating_days_per_year)
             price == RMul(r.merchant_selling_price_per_mwh,
                           RPow(RAdd(One, r.merchant_price_escalation), year - 1))
         IN  RMul(annual_energy, price)
    ELSE Zero

\* mutant of upfront_pv_of: the yearly royalties are summed without discounting
UpfrontPvUndiscounted(m, rev_floor, rev_toll, rev_merch, project_life) ==
    IF m.enabled /\ m.discounted_upfront
    THEN RSum([i \in 1..project_life |->
                  RMul(RAdd(RAdd(rev_floor[i + 1], rev_toll[i + 1]), rev_merch[i + 1]),
                       m.royalty_pct)])
    ELSE Zero

\* upfront_pv
upfront_pv_of(m, rev_floor, rev_toll, rev_merch, project_life) ==
    IF m.enabled /\ m.discounted_upfront
    THEN RSum([i \in 1..project_life |->
                  RDiv(RMul(RAdd(RAdd(rev_floor[i + 1], rev_toll[i + 1]), rev_merch[i + 1]),
                            m.royalty_pct),
                       RPow(RAdd(One, m.discount_rate_wacc), i - 1))])
    ELSE Zero

\* everything run_financial_model computes before its tax & cash-flow loop
Locals(p, c, f, r, m, apply) ==
    LET dc == derive_capex_opex(p, c)
        dfp == derive_financial(f, dc.total_capex_eur)
        life == p.project_life
        capex0 == dc.total_capex_eur
        aug_years == aug_years_of(c, life)
        aug_cost_each == RMul(RMul(capex0, c.battery_share_of_capex),
                              c.augmentation_cost_pct_of_batt_capex)
        decom_cost == RMul(c.decommissioning_per_mw, p.nominal_power_mw)
        debt_amount == dfp.debt_amount_eur
        dep_life == IMin(f.depreciation_life_years, life)
        rev_floor == [i \in 1..(life + 1) |-> rev_floor_of(p, r, apply, i - 1)]
        rev_toll == [i \in 1..(life + 1) |-> rev_toll_of(p, r, apply, i - 1)]
        rev_merch == [i \in 1..(life + 1) |-> rev_merch_of(p, r, apply, i - 1)]
    IN  [capex0 |-> capex0,
         land_cost |-> land_cost_of(c),
         opex_eur_year |-> dc.opex_eur_year,
         discount_rate_project |-> dfp.discount_rate_project,
         augmentation_by_year |->
             [i \in 1..(life + 1) |-> augmentation_of(i - 1, aug_years, aug_cost_each)],
         decom_cost |-> decom_cost,
         reserve |-> reserve_by_year(decom_cost, life),
         debt_amount |-> debt_amount,
         debt_fees |-> RMul(debt_amount, f.debt_upfront_fees_pct),
         debt_df |-> debt_schedule(debt_amount, f, life),
         dep_by_year |->
             [i \in 1..(life + 1) |->
                 depreciation_of(i - 1, capex0, aug_years, aug_cost_each, dep_life)],
         rev_floor |-> rev_floor,
         rev_toll |-> rev_toll,
         rev_merch |-> rev_merch,
         upfront_pv |-> upfront_pv_of(m, rev_floor, rev_toll, rev_merch, life)]

(***************************************************************************)
(* engine.py: run_financial_model, one pass of the tax & cash-flow loop    *)
(***************************************************************************)
\* mutant of LossUsed: the offset is not capped by the balance
LossUsedNoCap(loss, EBT) == RMul(R(8, 10), EBT)

\* mutant of LossUsed: the whole of EBT may be offset
LossUsedFullOffset(loss, EBT) == RMin(loss, EBT)

\* loss_used of a year with EBT >= 0
LossUsed(loss, EBT) == RMin(loss, RMul(R(8, 10), EBT))

\* mutant of DSCROf: an undefined ratio is reported as 0
DSCRZeroWhenUndefined(CFADS, Debt_Service) ==
    IF RLt(Zero, Debt_Service) THEN Some(RDiv(CFADS, Debt_Service)) ELSE Some(Zero)

\* DSCR
DSCROf(CFADS, Debt_Service) ==
    IF RLt(Zero, Debt_Service) THEN Some(RDiv(CFADS, Debt_Service)) ELSE None

\* mutant of IrapBase: a negative base is not floored at 0
IrapBaseNoFloor(year, EBITDA, Depreciation) ==
    IF year >= 1 THEN RSub(EBITDA, Depreciation) ELSE Zero

\* irap_base
IrapBase(year, EBITDA, Depreciation) ==
    IF year >= 1 THEN RMax(Zero, RSub(EBITDA, Depreciation)) ELSE Zero

\* mutant of OpexOf: year 0 is charged like any other year
OpexEveryYear(year, opex_eur_year) == opex_eur_year

\* OPEX
OpexOf(year, opex_eur_year) == IF year = 0 THEN Zero ELSE opex_eur_year

\* mutant of EquityCFOf: the upfront fees of the debt are not charged
EquityCFWithoutFees(year, CAPEX, debt_amount, debt_fees, Royalty_Upfront_y0, Project_FCF, Debt_Service) ==
    IF year = 0
    THEN RSub(RNeg(RSub(CAPEX, debt_amount)), Royalty_Upfront_y0)
    ELSE RSub(Project_FCF, Debt_Service)

\* Equity_CF
EquityCFOf(year, CAPEX, debt_amount, debt_fees, Royalty_Upfront_y0, Project_FCF, Debt_Service) ==
    IF year = 0
    THEN RSub(RSub(RNeg(RSub(CAPEX, debt_amount)), debt_fees), Royalty_Upfront_y0)
    ELSE RSub(Project_FCF, Debt_Service)

\* the row of a year, loss being loss_cf at the top of the pass
YearRow(year, loss, L, p, f, m) ==
    LET Revenue_Floor == L.rev_floor[year + 1]
        Revenue_Tolling == L.rev_toll[year + 1]
        Revenue_Merchant == L.rev_merch[year + 1]
        Revenue_Total == RAdd(RAdd(Revenue_Floor, Revenue_Tolling), Revenue_Merchant)
        OPEX == OpexOf(year, L.opex_eur_year)
        Royalty_yearly ==
            IF m.enabled /\ year >= 1 /\ ~m.discounted_upfront
            THEN RMul(Revenue_Total, m.royalty_pct) ELSE Zero
        Royalty_Upfront_y0 ==
            IF m.enabled /\ m.discounted_upfront /\ year = 0 THEN L.upfront_pv ELSE Zero
        EBITDA == RSub(RSub(Revenue_Total, OPEX), Royalty_yearly)
        Depreciation == L.dep_by_year[year + 1]
        d == L.debt_df[year + 1]
        EBT == RSub(RSub(EBITDA, Depreciation), d.Interest)
        profit == year >= 1 /\ ~RLt(EBT, Zero)
        loss_used == IF profit THEN LossUsed(loss, EBT) ELSE Zero
        ires_taxable == IF profit THEN RSub(EBT, loss_used) ELSE Zero
        loss_end ==
            IF year >= 1
            THEN IF RLt(EBT, Zero) THEN RAdd(loss, RNeg(EBT)) ELSE RSub(loss, loss_used)
            ELSE loss
        IRES == RMul(ires_taxable, f.ires)
        irap_base == IrapBase(year, EBITDA, Depreciation)
        IRAP == RMul(irap_base, f.irap)
        Taxes == RAdd(IRES, IRAP)
        CAPEX == IF year = 0 THEN RAdd(L.capex0, L.land_cost) ELSE Zero
        Augmentation == L.augmentation_by_year[year + 1]
        res == L.reserve[year + 1]
        Decommissioning ==
            IF year = p.project_life /\ year # 0 THEN L.decom_cost ELSE Zero
        CFADS == RSub(EBITDA, Taxes)
        Cash_Reserve_Net ==
            RAdd(RAdd(res.Reserve_Contribution, res.Reserve_Interest), res.Reserve_Release)
        Project_FCF ==
            RSub(RAdd(RSub(RSub(RSub(RSub(EBITDA, Taxes), CAPEX), Augmentation),
                           Royalty_Upfront_y0),
                      Cash_Reserve_Net),
                 Decommissioning)
        Equity_CF ==
            EquityCFOf(year, CAPEX, L.debt_amount, L.debt_fees, Royalty_Upfront_y0,
                       Project_FCF, d.Debt_Service)
    IN  [Year |-> year,
         Revenue_Floor |-> Revenue_Floor,
         Revenue_Tolling |-> Revenue_Tolling,
         Revenue_Merchant |-> Revenue_Merchant,
         Revenue_Total |-> Revenue_Total,
         Municipality_Royalty |-> RAdd(Royalty_yearly, Royalty_Upfront_y0),
         Municipality_Royalty_Upfront |-> Royalty_Upfront_y0,
         OPEX |-> OPEX,
         EBITDA |-> EBITDA,
         Depreciation |-> Depreciation,
         Interest |-> d.Interest,
         EBT |-> EBT,
         Taxable_IRES |-> ires_taxable,
         Loss_CF_End |-> loss_end,
         Loss_Used |-> loss_used,
         IRES |-> IRES,
         IRAP_Base |-> irap_base,
         IRAP |-> IRAP,
         Taxes |-> Taxes,
         CAPEX |-> CAPEX,
         Augmentation |-> Augmentation,
         Reserve_Contribution |-> res.Reserve_Contribution,
         Reserve_Interest |-> res.Reserve_Interest,
         Reserve_Release |-> res.Reserve_Release,
         Reserve_Balance |-> res.Reserve_Balance,
         Cash_Reserve |-> Cash_Reserve_Net,
         Decommissioning |-> Decommissioning,
         Debt_Close |-> d.Debt_Close,
         Debt_Service |-> d.Debt_Service,
         DSCR |-> DSCROf(CFADS, d.Debt_Service),
         Project_FCF |-> Project_FCF,
         Equity_CF |-> Equity_CF]

\* The tax & cash-flow loop as a function: the rows of years year..project_life
\* appended to acc, loss being the loss carried into year.
RECURSIVE YearLoop(_, _, _, _, _, _, _)
YearLoop(year, loss, acc, L, p, f, m) ==
    IF year > p.project_life THEN acc
    ELSE LET row == YearRow(year, loss, L, p, f, m)
         IN  YearLoop(year + 1, row.Loss_CF_End, Append(acc, row), L, p, f, m)

\* the year rows of the table run_financial_model returns for given inputs
run_financial_model(p, c, f, r, m, apply) ==
    YearLoop(0, Zero, << >>, Locals(p, c, f, r, m, apply), p, f, m)

\* the scalar columns broadcast to every row of the returned table
MetaColumns(L, f) ==
    [Debt_Amount |-> L.debt_amount,
     Debt_Fees |-> L.debt_fees,
     Discount_Rate_Equity |-> f.discount_rate_equity,
     Discount_Rate_Project |-> L.discount_rate_project,
     Total_Tax_Rate |-> RAdd(f.ires, f.irap)]


(***************************************************************************)
(* The inputs: records the input schema of models.py accepts.  Two         *)
(* families are drawn: the financing family varies the debt terms and      *)
(* keeps the capacity undegraded, the operating family has no debt and     *)
(* varies degradation and the floor scheme.                                *)
(***************************************************************************)
ProjectDataOf(life, deg) ==
    [project_life |-> life,
     nominal_power_mw |-> One,
     nominal_energy_mwh |-> Int2R(2),
     degradation_rate |-> deg,
     cycles_per_day |-> One,
     soc_min |-> R(1, 10),
     soc_max |-> R(9, 10),
     grid_system_unavailability |-> Zero]

\* the fields class CapexOpex declares
CapexOpexFields ==
    {"initial_capex_per_mw", "battery_share_of_capex",
     "augmentation_cost_pct_of_batt_capex", "augmentation_year_1",
     "augmentation_year_2", "fixed_om_per_mw_year", "insurance_grid_per_mw_year",
     "decommissioning_per_mw"}

\* CapexOpex(**kwargs): a pydantic BaseModel keeps the keyword arguments that
\* are declared fields and ignores the others
CapexOpex(kwargs) == [k \in CapexOpexFields |-> kwargs[k]]

\* the keyword arguments of the declared fields
CapexOpexOf(decom) ==
    [initial_capex_per_mw |-> Int2R(30),
     battery_share_of_capex |-> R(1, 2),
     augmentation_cost_pct_of_batt_capex |-> R(1, 3),
     augmentation_year_1 |-> 2,
     augmentation_year_2 |-> 0,
     fixed_om_per_mw_year |-> Int2R(6),
     insurance_grid_per_mw_year |-> Int2R(4),
     decommissioning_per_mw |-> decom]

FinancialParametersOf(n, pct, r, a) ==
    [debt_tenor_years |-> n,
     debt_pct_on_capex |-> pct,
     interest_rate |-> r,
     amortization_type |-> a,
     debt_upfront_fees_pct |-> R(1, 100),
     ires |-> R(1, 4),
     irap |-> R(1, 25),
     depreciation_life_years |-> 2,
     discount_rate_equity |-> R(1, 10)]

\* _toll1_end_after_start rejects an end year before the start year
TollWindows ==
    {w \in (0..MaxToll) \X (0..MaxToll) : ~(w[1] > 0 /\ w[2] > 0 /\ w[2] < w[1])}

RevenuesOf(ft, w, me) ==
    [floor_type |-> ft,
     cm_price_per_mw_year |-> Int2R(20),
     cm_share_of_mw |-> R(1, 2),
     cm_duration_years |-> 1,
     cm_escalation |-> Zero,
     macse_price_per_mwh |-> Int2R(9),
     macse_share_of_nom_energy |-> R(1, 2),
     macse_duration_years |-> 2,
     macse_escalation |-> Zero,
     tolling_base_1_per_mw_year |-> Int2R(50),
     tolling_1_start_year |-> w[1],
     tolling_1_end_year |-> w[2],
     tolling_escalation |-> Zero,
     tolling_profit_sharing_pct |-> Zero,
     merchant_enabled |-> me,
     merchant_selling_price_per_mwh |-> R(1, 8),
     merchant_price_escalation |-> Zero]

MunicipalityFeesSet ==
    {[enabled |-> en,
      royalty_pct |-> R(1, 20),
      discounted_upfront |-> up,
      discount_rate_wacc |-> R(1, 10)] : en \in BOOLEAN, up \in BOOLEAN}

DecomSet == {Zero, Int2R(6)}

LandCostSet == {Zero, Int2R(7)}

FinancingInputs ==
    /\ d_land_cost = Zero
    /\ pj \in {ProjectDataOf(life, Zero) : life \in 1..MaxLife}
    /\ cx \in {CapexOpex(CapexOpexOf(decom) @@ [land_cost_eur |-> d_land_cost]) :
                  decom \in DecomSet}
    /\ fp \in {FinancialParametersOf(n, R(1, 2), r, a) :
                  n \in 0..MaxTenor, r \in {Zero, R(1, 10)},
                  a \in {"annuity", "equal_principal"}}
    /\ rv \in {RevenuesOf("CM", w, me) : w \in TollWindows, me \in BOOLEAN}
    /\ mf \in MunicipalityFeesSet
    /\ apply_degradation = TRUE

OperatingInputs ==
    /\ d_land_cost = Zero
    /\ pj \in {ProjectDataOf(life, R(1, 10)) : life \in 1..MaxLife}
    /\ cx \in {CapexOpex(CapexOpexOf(decom) @@ [land_cost_eur |-> d_land_cost]) :
                  decom \in DecomSet}
    /\ fp \in {FinancialParametersOf(1, Zero, R(1, 10), "annuity")}
    /\ rv \in {RevenuesOf(ft, w, me) :
                  ft \in {"CM", "MACSE"}, w \in TollWindows, me \in BOOLEAN}
    /\ mf \in MunicipalityFeesSet
    /\ apply_degradation \in BOOLEAN

\* the augmentation family: no debt, no royalty, no tolling, an escalating
\* merchant price, and every pair of augmentation years, 0 being "no
\* augmentation"
AugmentationInputs ==
    /\ d_land_cost \in LandCostSet
    /\ pj \in {ProjectDataOf(life, Zero) : life \in 1..MaxLife}
    /\ cx \in {CapexOpex([CapexOpexOf(decom) EXCEPT !.augmentation_year_1 = a1,
                                                    !.augmentation_year_2 = a2]
                          @@ [land_cost_eur |-> d_land_cost]) :
                  decom \in DecomSet, a1 \in 0..MaxLife, a2 \in 0..MaxLife}
    /\ fp \in {FinancialParametersOf(0, Zero, Zero, "annuity")}
    /\ rv \in {[RevenuesOf("CM", <<0, 0>>, me) EXCEPT
                   !.merchant_price_escalation = R(1, 2)] : me \in BOOLEAN}
    /\ mf \in {m \in MunicipalityFeesSet : ~m.enabled /\ ~m.discounted_upfront}
    /\ apply_degradation = TRUE

(***************************************************************************)
(* run_financial_model as a state machine                                  *)
(***************************************************************************)
Init ==
    /\ FinancingInputs \/ OperatingInputs \/ AugmentationInputs
    /\ pc = "start"
    /\ pre = << >>
    /\ y = 0
    /\ loss_cf = Zero
    /\ rows = << >>
    /\ df = << >>
    /\ out = << >>
    /\ irr_frame = << >>

\* engine.py 137-298: the schedules and locals computed before the year loop
Prepare ==
    /\ pc = "start"
    /\ pre' = Locals(pj, cx, fp, rv, mf, apply_degradation)
    /\ loss_cf' = Zero
    /\ rows' = << >>
    /\ y' = 0
    /\ pc' = "loop"
    /\ UNCHANGED <<irr_frame, d_land_cost, pj, cx, fp, rv, mf, apply_degradation, df, out>>

\* engine.py 300-417: one pass of "for y in years"
YearStep ==
    /\ pc = "loop"
    /\ y <= pj.project_life
    /\ LET row == YearRow(y, loss_cf, pre, pj, fp, mf)
       IN  /\ rows' = Append(rows, row)
           /\ loss_cf' = row.Loss_CF_End
    /\ y' = y + 1
    /\ UNCHANGED <<irr_frame, d_land_cost, pj, cx, fp, rv, mf, apply_degradation, pc, pre, df, out>>

\* engine.py 419-427: the table is built and returned
Finish ==
    /\ pc = "loop"
    /\ y > pj.project_life
    /\ df' = [i \in 1..Len(rows) |-> rows[i] @@ MetaColumns(pre, fp)]
    /\ pc' = "done"
    /\ UNCHANGED <<irr_frame, d_land_cost, pj, cx, fp, rv, mf, apply_degradation, pre, y, loss_cf, rows, out>>

Next == Prepare \/ YearStep \/ Finish

Spec == Init /\ [][Next]_vars

(***************************************************************************)
(* kpis.py                                                                 *)
(***************************************************************************)
\* 1 / 1e-8, the tolerance of the bisection being 1e-8
ToleranceInverse == 100000000

\* float("inf"), float("-inf")
Inf == [n |-> 1, d |-> 0]
NegInf == [n |-> -1, d |-> 0]

\* _npv: rate is None or a present rate with 1 + rate > 0
npv(rate, cashflows) ==
    IF rate = None THEN NaN
    ELSE RSum([i \in 1..Len(cashflows) |->
                  RDiv(cashflows[i], RPow(RAdd(One, rate[1]), i - 1))])

\* the rate grid of _find_brackets_for_irr
rates ==
    << R(-99, 100), R(-9, 10), R(-8, 10), R(-7, 10), R(-6, 10), R(-5, 10),
       R(-4, 10), R(-3, 10), R(-2, 10), R(-1, 10),
       Zero, R(1, 100), R(2, 100), R(5, 100), R(8, 100), R(10, 100), R(15, 100),
       R(20, 100), R(30, 100), R(40, 100), R(50, 100), R(75, 100), One,
       R(15, 10), Int2R(2), Int2R(3), Int2R(5), Int2R(8), Int2R(10), Int2R(15),
       Int2R(20), Int2R(30), Int2R(50) >>

\* mutant of ProductNegative: v0 * v1 != 0, the signs are not compared
ProductNonZero(v0, v1) == v0.n # 0 /\ v1.n # 0

\* v0 * v1 < 0 and v0 * v1 > 0, read off the signs of the factors
ProductNegative(v0, v1) == (v0.n < 0 /\ v1.n > 0) \/ (v0.n > 0 /\ v1.n < 0)
ProductPositive(v0, v1) == (v0.n < 0 /\ v1.n < 0) \/ (v0.n > 0 /\ v1.n > 0)

\* the intervals appended for i = from..Len(npvs) - 1, npvs[i] being the pair
\* read as (r0, v0) and npvs[i + 1] the pair read as (r1, v1)
RECURSIVE BracketScan(_, _)
BracketScan(npvs, from) ==
    IF from >= Len(npvs) THEN << >>
    ELSE LET r0 == npvs[from][1]
             v0 == npvs[from][2]
             r1 == npvs[from + 1][1]
             v1 == npvs[from + 1][2]
             here == IF v0 = Zero THEN << <<r0, r0>> >>
                     ELSE IF ProductNegative(v0, v1) THEN << <<r0, r1>> >>
                     ELSE << >>
         IN  here \o BracketScan(npvs, from + 1)

\* _find_brackets_for_irr; no grid point is skipped, the NPV being finite wherever
\* 1 + r > 0
find_brackets_for_irr(cashflows) ==
    IF Len(cashflows) = 0 THEN << >>
    ELSE BracketScan([i \in 1..Len(rates) |-> <<rates[i], npv(Some(rates[i]), cashflows)>>], 1)

\* abs(f_mid) < 1e-8, the denominator of a value being below 2^31
BelowTolerance(v) ==
    \/ v.n = 0
    \/ Abs(v.n) <= 21 /\ Abs(v.n) * ToleranceInverse < v.d

\* (lo + hi) / 2
Midpoint(lo, hi) == RDiv(RAdd(lo, hi), Int2R(2))

\* the loop "for _ in range(120)" of _irr_first_root with k iterations left, and
\* the return of the midpoint after it
RECURSIVE BisectLoop(_, _, _, _, _)
BisectLoop(k, lo, hi, f_lo, cashflows) ==
    IF k = 0 THEN Midpoint(lo, hi)
    ELSE LET mid == Midpoint(lo, hi)
             f_mid == npv(Some(mid), cashflows)
         IN  IF BelowTolerance(f_mid) THEN mid
             ELSE IF ~ProductPositive(f_lo, f_mid)
             THEN BisectLoop(k - 1, lo, mid, f_lo, cashflows)
             ELSE BisectLoop(k - 1, mid, hi, f_mid, cashflows)

\* the bisection of _irr_first_root from the bracket (lo, hi), capped at MaxIter
\* iterations
bisection(lo, hi, cashflows) ==
    BisectLoop(MaxIter, lo, hi, npv(Some(lo), cashflows), cashflows)

\* mutant of NoSignChange: "or" in place of "and"
NoSignChangeOr(cashflows) ==
    ~(\/ \E i \in 1..Len(cashflows) : cashflows[i].n > 0
      \/ \E i \in 1..Len(cashflows) : cashflows[i].n < 0)

\* the test "not (has_pos and has_neg)"
NoSignChange(cashflows) ==
    ~(/\ \E i \in 1..Len(cashflows) : cashflows[i].n > 0
      /\ \E i \in 1..Len(cashflows) : cashflows[i].n < 0)

\* mutant of NoBracketNote: the note of the neighbouring failure is returned
NoBracketNoteUndocumented == "no_irr"

\* the note returned when the grid scan finds no interval
NoBracketNote == "no_bracket_found"

\* mutant of FirstBracket: the last interval found is refined
LastBracket(brackets) == brackets[Len(brackets)]

\* r_lo, r_hi = brackets[0]
FirstBracket(brackets) == brackets[1]

\* _irr_first_root: the pair (irr, note)
irr_first_root(cashflows) ==
    IF Len(cashflows) = 0 \/ \A i \in 1..Len(cashflows) : cashflows[i] = Zero
    THEN [irr |-> None, note |-> Some("no_cashflows")]
    ELSE IF NoSignChange(cashflows)
    THEN [irr |-> None, note |-> Some("no_sign_change")]
    ELSE LET brackets == find_brackets_for_irr(cashflows)
         IN  IF brackets = << >>
             THEN [irr |-> None, note |-> Some(NoBracketNote)]
             ELSE LET note == IF Len(brackets) > 1
                              THEN Some("multiple_irr_possible") ELSE None
                      r_lo == FirstBracket(brackets)[1]
                      r_hi == FirstBracket(brackets)[2]
                      f_lo == npv(Some(r_lo), cashflows)
                      f_hi == npv(Some(r_hi), cashflows)
                  IN  IF r_lo = r_hi THEN [irr |-> Some(r_lo), note |-> note]
                      ELSE IF f_lo = Zero THEN [irr |-> Some(r_lo), note |-> note]
                      ELSE IF f_hi = Zero THEN [irr |-> Some(r_hi), note |-> note]
                      ELSE IF ProductPositive(f_lo, f_hi)
                      THEN [irr |-> None, note |-> Some("bracket_invalid")]
                      ELSE [irr |-> Some(bisection(r_lo, r_hi, cashflows)), note |-> note]

\* Series.fillna(0.0)
FillNa(x) == IF x = NaN THEN Zero ELSE x

\* pd.to_numeric(errors="coerce"), replace(+-inf, nan), dropna: the values kept
DscrDefined(dscr) ==
    SelectSeq(dscr, LAMBDA v : v # None /\ v[1] # NaN /\ v[1] # Inf /\ v[1] # NegInf)

RECURSIVE SeqMin(_)
SeqMin(s) == IF Len(s) = 1 THEN s[1] ELSE RMin(s[1], SeqMin(Tail(s)))

\* mutant of MinDscr: a None is coerced to 0 before the minimum is taken
MinDscrNoneAsZero(dscr) ==
    LET kept == SelectSeq(dscr, LAMBDA v : v = None \/ (v[1] # NaN /\ v[1] # Inf /\ v[1] # NegInf))
    IN  IF Len(kept) > 0
        THEN Some(SeqMin([i \in 1..Len(kept) |-> IF kept[i] = None THEN Zero ELSE kept[i][1]]))
        ELSE None

\* min_dscr
MinDscr(dscr) ==
    LET dscr_num == DscrDefined(dscr)
    IN  IF Len(dscr_num) > 0 THEN Some(SeqMin([i \in 1..Len(dscr_num) |-> dscr_num[i][1]]))
        ELSE None

\* mutant of NoteEntry: only the note of a returned rate is reported
NoteEntryOnlyMultiple(key, note) ==
    IF note = Some("multiple_irr_possible") THEN [k \in {key} |-> note[1]] ELSE [k \in {} |-> ""]

\* the optional note key: "if equity_note: out[...] = equity_note"
NoteEntry(key, note) ==
    IF note # None /\ note[1] # "" THEN [k \in {key} |-> note[1]] ELSE [k \in {} |-> ""]

\* calc_kpis: the dictionary returned, a function of its keys
calc_kpis(table, f) ==
    LET equity_cf == [i \in 1..Len(table) |-> FillNa(table[i].Equity_CF)]
        project_cf == [i \in 1..Len(table) |-> FillNa(table[i].Project_FCF)]
        equity == irr_first_root(equity_cf)
        project == irr_first_root(project_cf)
        dr_eq == f.discount_rate_equity
        dr_prj == IF Len(table) > 0 THEN Some(table[1].Discount_Rate_Project) ELSE None
    IN  [equity_irr |-> equity.irr,
         project_irr |-> project.irr,
         equity_npv |-> npv(Some(dr_eq), equity_cf),
         project_npv |-> IF dr_prj # None THEN npv(dr_prj, project_cf) ELSE NaN,
         min_dscr |-> MinDscr([i \in 1..Len(table) |-> table[i].DSCR]),
         discount_rate_equity |-> Some(dr_eq),
         discount_rate_project |-> dr_prj]
        @@ NoteEntry("equity_irr_note", equity.note)
        @@ NoteEntry("project_irr_note", project.note)

(***************************************************************************)
(* calc_kpis applied to tables drawn from bounded sets                     *)
(***************************************************************************)
\* a row of a table with the columns calc_kpis reads
KpiRow(e, p, d) ==
    [Equity_CF |-> e, Project_FCF |-> p, DSCR |-> d, Discount_Rate_Project |-> R(1, 20)]

\* rows that vary the two cash-flow columns
CashflowRows ==
    {KpiRow(Int2R(e), Int2R(p), None) : e \in {-1, 0, 1}, p \in {-1, 0, 1}}

\* rows that vary the DSCR column
CoverageRows ==
    {KpiRow(One, One, d) : d \in {None, Some(One), Some(Int2R(2)), Some(Inf), Some(NaN)}}

\* rows whose cash-flow columns have roots off the rate grid, on it, and more
\* than one root
RootRows ==
    {KpiRow(Int2R(e), Int2R(p), None) : e \in {-6, 17, -12}, p \in {-8, 13}}

\* the tables of RootRows have at most three rows, which keeps the powers of
\* the bisected rates within the integers of the model
KpiTables ==
    UNION {[1..k -> CashflowRows] \cup [1..k -> CoverageRows]
               \cup [1..IMin(k, 3) -> RootRows] : k \in 0..MaxLen}

InitKpi ==
    /\ d_land_cost = Zero
    /\ irr_frame = << >>
    /\ pj = ProjectDataOf(1, Zero)
    /\ cx = CapexOpexOf(Zero)
    /\ fp = FinancialParametersOf(0, Zero, Zero, "annuity")
    /\ rv = RevenuesOf("CM", <<0, 0>>, FALSE)
    /\ mf \in {m \in MunicipalityFeesSet : ~m.enabled /\ ~m.discounted_upfront}
    /\ apply_degradation = TRUE
    /\ pc = "kpi"
    /\ pre = << >>
    /\ y = 0
    /\ loss_cf = Zero
    /\ rows = << >>
    /\ df \in KpiTables
    /\ out = << >>

\* kpis.py 114-158
CalcKpis ==
    /\ pc = "kpi"
    /\ out' = calc_kpis(df, fp)
    /\ pc' = "kpi_done"
    /\ UNCHANGED <<irr_frame, d_land_cost, pj, cx, fp, rv, mf, apply_degradation, pre, y, loss_cf, rows, df>>

NextKpi == CalcKpis

SpecKpi == InitKpi /\ [][NextKpi]_vars

(***************************************************************************)
(* _irr_first_root step by step: one call, its loops one pass at a time    *)
(***************************************************************************)
\* the cash-flow series of the calls
IrrAmounts == {-12, -6, -1, 0, 1, 17}

\* series of at most three amounts, which keeps the powers of the bisected
\* rates within the integers of the model
IrrSeries ==
    UNION {[1..k -> {Int2R(a) : a \in IrrAmounts}] : k \in 0..IMin(MaxLen, 3)}

\* the locals of a call before its first statement: i is the index of the
\* loop being run, k counts the iterations of the bisection begun so far
IrrFrame(cashflows) ==
    [cashflows |-> cashflows, i |-> 0, npvs |-> << >>, brackets |-> << >>,
     note |-> None, lo |-> Zero, hi |-> Zero, f_lo |-> Zero, k |-> 0, result |-> None]

\* "return irr, note"
IrrReturn(frame, irr, note) ==
    [frame EXCEPT !.result = Some([irr |-> irr, note |-> note])]

InitIrr ==
    /\ d_land_cost = Zero
    /\ pj = ProjectDataOf(1, Zero)
    /\ cx = CapexOpexOf(Zero)
    /\ fp = FinancialParametersOf(0, Zero, Zero, "annuity")
    /\ rv = RevenuesOf("CM", <<0, 0>>, FALSE)
    /\ mf \in {m \in MunicipalityFeesSet : ~m.enabled /\ ~m.discounted_upfront}
    /\ apply_degradation = TRUE
    /\ pc = "irr"
    /\ pre = << >>
    /\ y = 0
    /\ loss_cf = Zero
    /\ rows = << >>
    /\ df = << >>
    /\ out = << >>
    /\ irr_frame \in {IrrFrame(c) : c \in IrrSeries}

\* kpis.py 64-74: the tests on the series, then the call of
\* _find_brackets_for_irr
IrrStart ==
    /\ pc = "irr"
    /\ LET c == irr_frame.cashflows
       IN  IF Len(c) = 0 \/ \A j \in 1..Len(c) : c[j] = Zero
           THEN /\ irr_frame' = IrrReturn(irr_frame, None, Some("no_cashflows"))
                /\ pc' = "irr_done"
           ELSE IF NoSignChange(c)
           THEN /\ irr_frame' = IrrReturn(irr_frame, None, Some("no_sign_change"))
                /\ pc' = "irr_done"
           ELSE /\ irr_frame' = [irr_frame EXCEPT !.i = 1]
                /\ pc' = "irr_grid"
    /\ UNCHANGED <<d_land_cost, pj, cx, fp, rv, mf, apply_degradation, pre, y, loss_cf,
                   rows, df, out>>

\* kpis.py 36-44: one pass of "for r in rates"; after the last rate the scan
\* of the pairs begins
IrrGridStep ==
    /\ pc = "irr_grid"
    /\ IF irr_frame.i <= Len(rates)
       THEN LET r == rates[irr_frame.i]
                v == npv(Some(r), irr_frame.cashflows)
            IN  /\ irr_frame' =
                       [irr_frame EXCEPT
                           !.i = @ + 1,
                           !.npvs = IF v \in {NaN, Inf, NegInf} THEN @
                                    ELSE Append(@, <<r, v>>)]
                /\ pc' = "irr_grid"
       ELSE /\ irr_frame' = [irr_frame EXCEPT !.i = 1]
            /\ pc' = "irr_scan"
    /\ UNCHANGED <<d_land_cost, pj, cx, fp, rv, mf, apply_degradation, pre, y, loss_cf,
                   rows, df, out>>

\* kpis.py 46-54: one pass of "for i in range(1, len(npvs))", the pair read
\* being npvs[i] and npvs[i + 1] of the sequence
IrrScanStep ==
    /\ pc = "irr_scan"
    /\ irr_frame.i < Len(irr_frame.npvs)
    /\ LET r0 == irr_frame.npvs[irr_frame.i][1]
           v0 == irr_frame.npvs[irr_frame.i][2]
           r1 == irr_frame.npvs[irr_frame.i + 1][1]
           v1 == irr_frame.npvs[irr_frame.i + 1][2]
       IN  irr_frame' =
               [irr_frame EXCEPT
                   !.i = @ + 1,
                   !.brackets = IF v0 = Zero THEN Append(@, <<r0, r0>>)
                                ELSE IF ProductNegative(v0, v1) THEN Append(@, <<r0, r1>>)
                                ELSE @]
    /\ UNCHANGED <<d_land_cost, pj, cx, fp, rv, mf, apply_degradation, pc, pre, y,
                   loss_cf, rows, df, out>>

\* kpis.py 56, 75-99: the intervals are returned to _irr_first_root, which
\* returns or enters the bisection loop with the first of them
IrrBracket ==
    /\ pc = "irr_scan"
    /\ irr_frame.i >= Len(irr_frame.npvs)
    /\ LET brackets == irr_frame.brackets
           note == IF Len(brackets) > 1 THEN Some("multiple_irr_possible") ELSE None
           r_lo == FirstBracket(brackets)[1]
           r_hi == FirstBracket(brackets)[2]
           f_lo == npv(Some(r_lo), irr_frame.cashflows)
           f_hi == npv(Some(r_hi), irr_frame.cashflows)
       IN  IF brackets = << >>
           THEN /\ irr_frame' = IrrReturn(irr_frame, None, Some(NoBracketNote))
                /\ pc' = "irr_done"
           ELSE IF r_lo = r_hi \/ f_lo = Zero
           THEN /\ irr_frame' = IrrReturn(irr_frame, Some(r_lo), note)
                /\ pc' = "irr_done"
           ELSE IF f_hi = Zero
           THEN /\ irr_frame' = IrrReturn(irr_frame, Some(r_hi), note)
                /\ pc' = "irr_done"
           ELSE IF ProductPositive(f_lo, f_hi)
           THEN /\ irr_frame' = IrrReturn(irr_frame, None, Some("bracket_invalid"))
                /\ pc' = "irr_done"
           ELSE /\ irr_frame' = [irr_frame EXCEPT !.note = note, !.lo = r_lo,
                                                  !.hi = r_hi, !.f_lo = f_lo]
                /\ pc' = "irr_loop"
    /\ UNCHANGED <<d_land_cost, pj, cx, fp, rv, mf, apply_degradation, pre, y, loss_cf,
                   rows, df, out>>

\* mutant of IrrIterate: "while True" in place of "for _ in range(120)", the
\* iterations are not counted
IrrIterateUncounted ==
    /\ pc = "irr_loop"
    /\ irr_frame.k < MaxIter
    /\ LET mid == Midpoint(irr_frame.lo, irr_frame.hi)
           f_mid == npv(Some(mid), irr_frame.cashflows)
       IN  IF BelowTolerance(f_mid)
           THEN /\ irr_frame' = IrrReturn(irr_frame, Some(mid), irr_frame.note)
                /\ pc' = "irr_done"
           ELSE /\ irr_frame' =
                       IF ~ProductPositive(irr_frame.f_lo, f_mid)
                       THEN [irr_frame EXCEPT !.hi = mid]
                       ELSE [irr_frame EXCEPT !.lo = mid, !.f_lo = f_mid]
                /\ pc' = "irr_loop"
    /\ UNCHANGED <<d_land_cost, pj, cx, fp, rv, mf, apply_degradation, pre, y, loss_cf,
                   rows, df, out>>

\* kpis.py 101-109: one iteration of "for _ in range(120)", the cap scaled to
\* MaxIter
IrrIterate ==
    /\ pc = "irr_loop"
    /\ irr_frame.k < MaxIter
    /\ LET mid == Midpoint(irr_frame.lo, irr_frame.hi)
           f_mid == npv(Some(mid), irr_frame.cashflows)
       IN  IF BelowTolerance(f_mid)
           THEN /\ irr_frame' = IrrReturn([irr_frame EXCEPT !.k = @ + 1],
                                          Some(mid), irr_frame.note)
                /\ pc' = "irr_done"
           ELSE /\ irr_frame' =
                       IF ~ProductPositive(irr_frame.f_lo, f_mid)
                       THEN [irr_frame EXCEPT !.k = @ + 1, !.hi = mid]
                       ELSE [irr_frame EXCEPT !.k = @ + 1, !.lo = mid, !.f_lo = f_mid]
                /\ pc' = "irr_loop"
    /\ UNCHANGED <<d_land_cost, pj, cx, fp, rv, mf, apply_degradation, pre, y, loss_cf,
                   rows, df, out>>

\* kpis.py 111: the iterations are used up and the midpoint is returned
IrrExhaust ==
    /\ pc = "irr_loop"
    /\ irr_frame.k = MaxIter
    /\ irr_frame' = IrrReturn(irr_frame, Some(Midpoint(irr_frame.lo, irr_frame.hi)),
                              irr_frame.note)
    /\ pc' = "irr_done"
    /\ UNCHANGED <<d_land_cost, pj, cx, fp, rv, mf, apply_degradation, pre, y, loss_cf,
                   rows, df, out>>

NextIrr ==
    IrrStart \/ IrrGridStep \/ IrrScanStep \/ IrrBracket \/ IrrIterate \/ IrrExhaust

SpecIrr == InitIrr /\ [][NextIrr]_vars

(***************************************************************************)
(* Properties of run_financial_model                                       *)
(***************************************************************************)
Positive(a) == RLt(Zero, a)
Prepared == pc \in {"loop", "done"}

\* C1: for every accepted input the Principal values of the debt schedule over the
\* years 1..debt_tenor_years sum to debt_amount, and the row of year
\* debt_tenor_years has Debt_Close = 0.  (The schedule has rows for the years
\* 0..project_life only.)
C1_PrincipalRepaysDebt ==
    Prepared =>
        LET n == fp.debt_tenor_years
            sched == pre.debt_df
        IN  /\ RSum([t \in 1..n |->
                        IF t + 1 <= Len(sched) THEN sched[t + 1].Principal ELSE Zero])
               = pre.debt_amount
            /\ n + 1 <= Len(sched)
            /\ sched[n + 1].Debt_Close = Zero

C3_LossCarryForwardNonNegative ==
    /\ RLe(Zero, loss_cf)
    /\ \A i \in 1..Len(rows) : RLe(Zero, rows[i].Loss_CF_End)

\* C3 witness: a year that offsets part of an accumulated loss, after a loss year
C3_Witness ==
    \E i \in 1..Len(rows) :
        /\ Positive(rows[i].Loss_Used)
        /\ Positive(rows[i].Loss_CF_End)
        /\ \E j \in 1..Len(rows) : RLt(rows[j].EBT, Zero)

\* C4 (in the exact arithmetic of this model; the binary rounding of the
\* running balance, of relative size about 1e-15, is outside it):
\* if the decommissioning cost is > 0 and project_life > 1, the row of year
\* project_life has Reserve_Balance = Reserve_Release = that cost, and
\* Reserve_Contribution is 0 in the rows of year 0 and of year project_life.
C4_ReserveReachesTarget ==
    LET target == RMul(cx.decommissioning_per_mw, pj.nominal_power_mw)
    IN  (Positive(target) /\ pj.project_life > 1) =>
            \A i \in 1..Len(rows) :
                /\ rows[i].Year = pj.project_life =>
                       /\ rows[i].Reserve_Balance = target
                       /\ rows[i].Reserve_Release = target
                       /\ rows[i].Reserve_Contribution = Zero
                /\ rows[i].Year = 0 => rows[i].Reserve_Contribution = Zero

\* C4 witness: a finished run with a positive cost and project_life > 2 whose
\* last row releases the cost
C4_Witness ==
    /\ pc = "done"
    /\ pj.project_life > 2
    /\ Positive(cx.decommissioning_per_mw)
    /\ Positive(rows[Len(rows)].Reserve_Release)
    /\ RLt(rows[2].Reserve_Contribution, Zero)

\* C5: in every row DSCR is None exactly when Debt_Service is not > 0, and is
\* otherwise (EBITDA - Taxes) / Debt_Service; a None is not a number.
C5_DscrUndefinedWithoutDebtService ==
    \A i \in 1..Len(rows) :
        /\ rows[i].DSCR = None <=> ~Positive(rows[i].Debt_Service)
        /\ Positive(rows[i].Debt_Service) =>
               rows[i].DSCR = Some(RDiv(RSub(rows[i].EBITDA, rows[i].Taxes),
                                        rows[i].Debt_Service))
        /\ rows[i].DSCR # Some(Zero) \/ rows[i].EBITDA = rows[i].Taxes

\* C5 witness: a table with a year of debt service whose DSCR is a number and a
\* year without debt service whose DSCR is None
C5_Witness ==
    /\ \E i \in 1..Len(rows) : Positive(rows[i].Debt_Service) /\ rows[i].DSCR # None
    /\ \E i \in 1..Len(rows) :
           rows[i].Year > 0 /\ rows[i].Debt_Service = Zero /\ rows[i].DSCR = None

\* C7: the row of year 0 holds no operating line: the revenues, OPEX, EBITDA,
\* Depreciation, Interest, EBT, IRES, IRAP, Taxes, Debt_Service, Decommissioning,
\* the reserve columns and Loss_CF_End are all 0 there.
C7_YearZeroHoldsNoOperations ==
    \A i \in 1..Len(rows) :
        rows[i].Year = 0 =>
            \A c \in {"Revenue_Floor", "Revenue_Tolling", "Revenue_Merchant", "Revenue_Total",
                      "OPEX", "EBITDA", "Depreciation", "Interest", "EBT", "IRES", "IRAP",
                      "Taxes", "Debt_Service", "Decommissioning", "Reserve_Contribution",
                      "Reserve_Interest", "Reserve_Release", "Reserve_Balance",
                      "Cash_Reserve", "Loss_CF_End"} :
                rows[i][c] = Zero

\* C7 witness: the row of year 0 of a run with OPEX, debt, a decommissioning cost
\* and an upfront royalty, followed by a row with OPEX and revenue
C7_Witness ==
    /\ Len(rows) >= 2
    /\ rows[1].Year = 0
    /\ Positive(rows[1].CAPEX)
    /\ Positive(rows[1].Debt_Close)
    /\ Positive(rows[1].Municipality_Royalty_Upfront)
    /\ Positive(cx.decommissioning_per_mw)
    /\ Positive(rows[2].OPEX)
    /\ Positive(rows[2].Revenue_Total)

(***************************************************************************)
(* Properties of calc_kpis and _irr_first_root                             *)
(***************************************************************************)
Returned == pc = "kpi_done"
EquityCF == [i \in 1..Len(df) |-> df[i].Equity_CF]
ProjectCF == [i \in 1..Len(df) |-> df[i].Project_FCF]

\* the DSCR values of the table that are numbers
FiniteDscr ==
    {df[i].DSCR[1] : i \in {j \in 1..Len(df) :
        df[j].DSCR # None /\ df[j].DSCR[1].d # 0}}

\* C6: min_dscr is the least of the DSCR values that are defined and finite, and
\* is None when there is none; years without a defined DSCR do not enter it.
C6_MinDscrOverDefinedYears ==
    Returned =>
        IF FiniteDscr = {} THEN out.min_dscr = None
        ELSE /\ out.min_dscr # None
             /\ out.min_dscr[1] \in FiniteDscr
             /\ \A v \in FiniteDscr : RLe(out.min_dscr[1], v)

\* C6 witness: a table with an undefined DSCR and the numbers 2 and 1, whose
\* min_dscr is 1
C6_Witness ==
    /\ Returned
    /\ \E i \in 1..Len(df) : df[i].DSCR = None
    /\ \E i \in 1..Len(df) : df[i].DSCR = Some(Int2R(2))
    /\ out.min_dscr = Some(One)

\* the series holds no value > 0 or no value < 0
LacksSignChange(cf) ==
    \/ \A i \in 1..Len(cf) : ~Positive(cf[i])
    \/ \A i \in 1..Len(cf) : ~RLt(cf[i], Zero)

\* the result C8 states for a series without a sign change
RejectedAs(cf, irr, key) ==
    /\ irr = None
    /\ key \in DOMAIN out
    /\ out[key] = IF \A i \in 1..Len(cf) : cf[i] = Zero
                  THEN "no_cashflows" ELSE "no_sign_change"

\* C8: a series that does not hold both a value > 0 and a value < 0 gets no rate:
\* the IRR is None with note "no_sign_change", or "no_cashflows" when the series
\* is empty or all zero; the series [0, 100] gets None with "no_sign_change".
C8_NoSignChangeRejected ==
    /\ Returned =>
           /\ LacksSignChange(EquityCF) =>
                  RejectedAs(EquityCF, out.equity_irr, "equity_irr_note")
           /\ LacksSignChange(ProjectCF) =>
                  RejectedAs(ProjectCF, out.project_irr, "project_irr_note")
    /\ irr_first_root(<<Zero, Int2R(100)>>) = [irr |-> None, note |-> Some("no_sign_change")]

\* C8 witness: the equity series [0, 1] rejected with "no_sign_change"
C8_Witness ==
    /\ Returned
    /\ EquityCF = <<Zero, One>>
    /\ out.equity_irr = None
    /\ out.equity_irr_note = "no_sign_change"

\* the notes present in the returned dictionary
NotesReturned ==
    {out[k] : k \in {"equity_irr_note", "project_irr_note"} \cap DOMAIN out}

\* C9 as stated: every equity_irr_note / project_irr_note returned is one of
\* "no_cashflows", "no_sign_change", "multiple_irr_possible", "bracket_invalid".
C9_NotesAmongFourDocumented ==
    Returned =>
        NotesReturned \subseteq
            {"no_cashflows", "no_sign_change", "multiple_irr_possible", "bracket_invalid"}

\* C9 as amended: every equity_irr_note / project_irr_note returned is one of
\* "no_cashflows", "no_sign_change", "no_bracket_found", "multiple_irr_possible",
\* "bracket_invalid".
C9_NotesAmongFive ==
    Returned =>
        NotesReturned \subseteq
            {"no_cashflows", "no_sign_change", "no_bracket_found",
             "multiple_irr_possible", "bracket_invalid"}

\* C9 witness: the equity series [-1, 1, -1], whose NPV is negative at every rate,
\* returned with the note "no_bracket_found"
C9_Witness ==
    /\ Returned
    /\ EquityCF = <<Int2R(-1), One, Int2R(-1)>>
    /\ out.equity_irr_note = "no_bracket_found"

KpiKeys ==
    {"equity_irr", "project_irr", "equity_npv", "project_npv", "min_dscr",
     "discount_rate_equity", "discount_rate_project"}

\* C10: calc_kpis returns for every table, with the seven KPI keys present, and
\* whenever equity_irr (project_irr) is None the matching note key is present and
\* holds a non-empty string.
C10_NullIrrCarriesNote ==
    /\ pc = "kpi" => KpiKeys \subseteq DOMAIN calc_kpis(df, fp)
    /\ Returned =>
           /\ KpiKeys \subseteq DOMAIN out
           /\ out.equity_irr = None =>
                  "equity_irr_note" \in DOMAIN out /\ out.equity_irr_note # ""
           /\ out.project_irr = None =>
                  "project_irr_note" \in DOMAIN out /\ out.project_irr_note # ""

\* C10 witness: a dictionary with a null project_irr and its note beside an
\* equity_irr that is a rate and an equity NPV that is a number
C10_Witness ==
    /\ Returned
    /\ out.project_irr = None
    /\ "project_irr_note" \in DOMAIN out
    /\ out.equity_irr # None
    /\ "equity_irr_note" \notin DOMAIN out
    /\ out.equity_npv.d # 0

\* what C11 states of one series, its returned rate and its note key
FirstRootFlagged(cf, irr, key) ==
    LET brackets == find_brackets_for_irr(cf)
    IN  ~NoSignChange(cf) =>
            /\ Len(brackets) > 1 =>
                   /\ key \in DOMAIN out
                   /\ out[key] = "multiple_irr_possible"
                   /\ irr # None
                   /\ RLe(brackets[1][1], irr[1])
                   /\ RLe(irr[1], brackets[1][2])
                   /\ \A j \in 1..Len(brackets) : RLe(brackets[1][1], brackets[j][1])
            /\ (Len(brackets) = 1 /\ irr # None) => key \notin DOMAIN out

\* C11: when the grid scan finds more than one interval the note is
\* "multiple_irr_possible" and the returned rate lies in the first, lowest-rate
\* interval; when it finds exactly one and a rate is returned there is no note.
C11_FirstRootAndMultipleNote ==
    Returned =>
        /\ FirstRootFlagged(EquityCF, out.equity_irr, "equity_irr_note")
        /\ FirstRootFlagged(ProjectCF, out.project_irr, "project_irr_note")

\* C11 witness: the equity series [-6, 17, -12], with roots 1/3 and 1/2, returned
\* with a rate strictly inside the first interval (3/10, 4/10) and the note
C11_Witness ==
    /\ Returned
    /\ EquityCF = <<Int2R(-6), Int2R(17), Int2R(-12)>>
    /\ out.equity_irr # None
    /\ RLt(R(3, 10), out.equity_irr[1])
    /\ RLt(out.equity_irr[1], R(4, 10))
    /\ out.equity_irr_note = "multiple_irr_possible"
    /\ out.project_irr # None
    /\ "project_irr_note" \notin DOMAIN out

UpfrontRoyalty == mf.enabled /\ mf.discounted_upfront

\* the royalty of the years 1..project_life of the finished table, discounted to
\* year 1 at discount_rate_wacc
DiscountedRoyalties ==
    RSum([i \in 1..(Len(rows) - 1) |->
             RDiv(RMul(rows[i + 1].Revenue_Total, mf.royalty_pct),
                  RPow(RAdd(One, mf.discount_rate_wacc), rows[i + 1].Year - 1))])

\* C13: with the royalty enabled and discounted_upfront, the row of year 0 carries
\* the discounted sum of the yearly royalties, every year >= 1 has no royalty and
\* EBITDA = Revenue_Total - OPEX, and the upfront amount is subtracted once, from
\* Project_FCF and Equity_CF of year 0; revenues [0, 100, 100] at rate 0 and
\* 5 % give 10.
C13_UpfrontRoyaltyChargedOnce ==
    /\ UpfrontRoyalty =>
           /\ pc = "done" => rows[1].Municipality_Royalty_Upfront = DiscountedRoyalties
           /\ \A i \in 1..Len(rows) :
                  IF rows[i].Year = 0
                  THEN /\ rows[i].Municipality_Royalty_Upfront = pre.upfront_pv
                       /\ rows[i].Municipality_Royalty = pre.upfront_pv
                       /\ rows[i].Project_FCF =
                              RSub(RNeg(rows[i].CAPEX), pre.upfront_pv)
                       /\ rows[i].Equity_CF =
                              RSub(RSub(RSub(pre.debt_amount, rows[i].CAPEX), pre.debt_fees),
                                   pre.upfront_pv)
                  ELSE /\ rows[i].Municipality_Royalty = Zero
                       /\ rows[i].Municipality_Royalty_Upfront = Zero
                       /\ rows[i].EBITDA = RSub(rows[i].Revenue_Total, rows[i].OPEX)
                       /\ rows[i].Project_FCF =
                              RSub(RAdd(RSub(RSub(rows[i].EBITDA, rows[i].Taxes),
                                             rows[i].Augmentation),
                                        rows[i].Cash_Reserve),
                                   rows[i].Decommissioning)
    /\ upfront_pv_of([enabled |-> TRUE, royalty_pct |-> R(5, 100),
                      discounted_upfront |-> TRUE, discount_rate_wacc |-> Zero],
                     <<Zero, Int2R(100), Int2R(100)>>, <<Zero, Zero, Zero>>,
                     <<Zero, Zero, Zero>>, 2) = Int2R(10)

\* C13 witness: a finished table of three or more years with revenue in year 2,
\* financed with debt, whose year 0 carries an upfront royalty
C13_Witness ==
    /\ pc = "done"
    /\ UpfrontRoyalty
    /\ Len(rows) >= 3
    /\ Positive(rows[3].Revenue_Total)
    /\ Positive(rows[1].Municipality_Royalty_Upfront)
    /\ Positive(pre.debt_amount)

Schedule == pre.debt_df
RepaymentRows ==
    {i \in 1..Len(Schedule) : 1 <= Schedule[i].Year /\ Schedule[i].Year <= fp.debt_tenor_years}

\* C15: in every year 1..debt_tenor_years of the schedule 0 <= Principal <=
\* Debt_Open, Debt_Close = Debt_Open - Principal and Debt_Open is Debt_Close of
\* the year before; Debt_Close is >= 0 in every row and never increases.
C15_PrincipalClampedToBalance ==
    Prepared =>
        /\ \A i \in RepaymentRows :
               /\ RLe(Zero, Schedule[i].Principal)
               /\ RLe(Schedule[i].Principal, Schedule[i].Debt_Open)
               /\ Schedule[i].Debt_Close =
                      RSub(Schedule[i].Debt_Open, Schedule[i].Principal)
               /\ Schedule[i].Debt_Open = Schedule[i - 1].Debt_Close
        /\ \A i \in 1..Len(Schedule) :
               /\ RLe(Zero, Schedule[i].Debt_Close)
               /\ i > 1 => RLe(Schedule[i].Debt_Close, Schedule[i - 1].Debt_Close)

\* C15 witness: a loan at 10 % repaid in two years of a longer project, with
\* principal in both years and nothing left after the second
C15_Witness ==
    /\ Prepared
    /\ fp.debt_tenor_years = 2
    /\ Positive(fp.interest_rate)
    /\ Len(Schedule) >= 4
    /\ Positive(Schedule[2].Principal)
    /\ Positive(Schedule[3].Principal)
    /\ Positive(Schedule[2].Debt_Close)
    /\ Schedule[3].Debt_Close = Zero

\* the payment C16 states: amount * r(1+r)^n / ((1+r)^n - 1), or amount / n at r = 0
StatedPayment(amount, r, n) ==
    IF Positive(r)
    THEN RDiv(RMul(amount, RMul(r, RPow(RAdd(One, r), n))),
              RSub(RPow(RAdd(One, r), n), One))
    ELSE RDiv(amount, Int2R(n))

\* C16: under annuity with debt_amount > 0 and tenor >= 1, Debt_Service is the
\* stated payment in every year 1..tenor and Interest is the opening balance
\* times r; 1000 at 10 % over one year pays 1100 (1000 + 100) and closes at 0.
C16_AnnuityPaymentFixed ==
    /\ (Prepared /\ fp.amortization_type = "annuity" /\ Positive(pre.debt_amount)
            /\ fp.debt_tenor_years >= 1) =>
           \A i \in RepaymentRows :
               /\ Schedule[i].Debt_Service =
                      StatedPayment(pre.debt_amount, fp.interest_rate, fp.debt_tenor_years)
               /\ Schedule[i].Debt_Service =
                      RAdd(Schedule[i].Interest, Schedule[i].Principal)
               /\ Schedule[i].Interest = RMul(Schedule[i].Debt_Open, fp.interest_rate)
    /\ debt_schedule(Int2R(1000), FinancialParametersOf(1, One, R(10, 100), "annuity"), 1)[2]
           = [Year |-> 1, Debt_Open |-> Int2R(1000), Interest |-> Int2R(100),
              Principal |-> Int2R(1000), Debt_Service |-> Int2R(1100), Debt_Close |-> Zero]

\* C16 witness: an annuity at 10 % over two years, both payments made, the
\* interest of the second smaller than that of the first
C16_Witness ==
    /\ Prepared
    /\ fp.amortization_type = "annuity"
    /\ fp.debt_tenor_years = 2
    /\ Positive(fp.interest_rate)
    /\ Len(Schedule) >= 3
    /\ Positive(Schedule[3].Interest)
    /\ RLt(Schedule[3].Interest, Schedule[2].Interest)
    /\ Schedule[3].Debt_Service = Schedule[2].Debt_Service

\* C17: year 0 and every year beyond debt_tenor_years have zero Interest,
\* Principal and Debt_Service; year 0 records only the balance, debt_amount when
\* debt_amount > 0 and tenor > 0; with debt_amount <= 0 or tenor <= 0 every
\* value of every row is 0.
C17_ZeroOutsideTenor ==
    Prepared =>
        /\ \A i \in 1..Len(Schedule) :
               (Schedule[i].Year = 0 \/ Schedule[i].Year > fp.debt_tenor_years) =>
                   /\ Schedule[i].Interest = Zero
                   /\ Schedule[i].Principal = Zero
                   /\ Schedule[i].Debt_Service = Zero
        /\ Schedule[1].Year = 0
        /\ Schedule[1].Debt_Open = Zero
        /\ (Positive(pre.debt_amount) /\ fp.debt_tenor_years > 0) =>
               Schedule[1].Debt_Close = pre.debt_amount
        /\ (~Positive(pre.debt_amount) \/ fp.debt_tenor_years <= 0) =>
               \A i \in 1..Len(Schedule) : Schedule[i] = ZeroDebtRow(i - 1)

\* C17 witness: a loan of one year in a longer project: the balance in year 0,
\* a payment in year 1, nothing in year 2
C17_Witness ==
    /\ Prepared
    /\ fp.debt_tenor_years = 1
    /\ Len(Schedule) >= 3
    /\ Positive(Schedule[1].Debt_Close)
    /\ Positive(Schedule[2].Debt_Service)
    /\ Schedule[3].Debt_Service = Zero
    /\ Schedule[3].Debt_Close = Zero

\* C18: in every year >= 1, with the balance of the year before as opening
\* balance: if EBT < 0 the balance grows by |EBT| and Loss_Used = Taxable_IRES = 0;
\* if EBT >= 0, Loss_Used = min(opening, 0.80 EBT), Taxable_IRES = EBT - Loss_Used
\* and the balance falls by Loss_Used, so Loss_Used <= opening and Taxable_IRES >=
\* 0.20 EBT.
C18_LossCarryForwardStep ==
    \A i \in 2..Len(rows) :
        LET opening == rows[i - 1].Loss_CF_End
            EBT == rows[i].EBT
        IN  IF RLt(EBT, Zero)
            THEN /\ rows[i].Loss_CF_End = RSub(opening, EBT)
                 /\ rows[i].Loss_Used = Zero
                 /\ rows[i].Taxable_IRES = Zero
            ELSE /\ rows[i].Loss_Used = RMin(opening, RMul(R(80, 100), EBT))
                 /\ rows[i].Taxable_IRES = RSub(EBT, rows[i].Loss_Used)
                 /\ rows[i].Loss_CF_End = RSub(opening, rows[i].Loss_Used)
                 /\ RLe(rows[i].Loss_Used, opening)
                 /\ RLe(RMul(R(20, 100), EBT), rows[i].Taxable_IRES)

\* C18 witness: a loss year followed by a profit year that offsets 80 % of its EBT
\* and leaves part of the loss for later
C18_Witness ==
    \E i \in 3..Len(rows) :
        /\ RLt(rows[i - 1].EBT, Zero)
        /\ Positive(rows[i].EBT)
        /\ rows[i].Loss_Used = RMul(R(80, 100), rows[i].EBT)
        /\ rows[i].Taxable_IRES = RMul(R(20, 100), rows[i].EBT)
        /\ Positive(rows[i].Loss_CF_End)

\* C19: in every year >= 1 IRAP_Base = max(0, EBITDA - Depreciation), whatever the
\* loss carried forward and the interest, IRAP = IRAP_Base * irap and Taxes =
\* IRES + IRAP.
C19_IrapOnOperatingMargin ==
    \A i \in 1..Len(rows) :
        /\ rows[i].Year >= 1 =>
               rows[i].IRAP_Base = RMax(Zero, RSub(rows[i].EBITDA, rows[i].Depreciation))
        /\ rows[i].IRAP = RMul(rows[i].IRAP_Base, fp.irap)
        /\ rows[i].Taxes = RAdd(rows[i].IRES, rows[i].IRAP)

\* C19 witness: a table with a year whose base is floored at 0 and a year with
\* interest and a loss offset whose base is EBITDA - Depreciation, above the
\* IRES base
C19_Witness ==
    /\ \E i \in 1..Len(rows) :
           /\ rows[i].Year >= 1
           /\ RLt(rows[i].EBITDA, rows[i].Depreciation)
           /\ rows[i].IRAP_Base = Zero
    /\ \E i \in 1..Len(rows) :
           /\ Positive(rows[i].Interest)
           /\ Positive(rows[i].Loss_Used)
           /\ Positive(rows[i].IRAP)
           /\ RLt(rows[i].Taxable_IRES, rows[i].IRAP_Base)

\* L = min(depreciation_life_years, project_life)
TrancheLife == IMin(fp.depreciation_life_years, pj.project_life)

\* the charge of a tranche of the given cost that starts in year from
TrancheCharge(cost, from, year) ==
    IF from <= year /\ year <= IMin(from + TrancheLife - 1, pj.project_life)
    THEN RDiv(cost, Int2R(TrancheLife)) ELSE Zero

\* the cost of one augmentation and the charges of the augmentation tranches:
\* one tranche for each distinct non-zero augmentation year within the project
AugmentationCost ==
    RMul(RMul(pre.capex0, cx.battery_share_of_capex), cx.augmentation_cost_pct_of_batt_capex)
AugmentationCharges(year) ==
    LET a1 == cx.augmentation_year_1
        a2 == cx.augmentation_year_2
    IN  RAdd(IF a1 # 0 /\ a1 <= pj.project_life
             THEN TrancheCharge(AugmentationCost, a1, year) ELSE Zero,
             IF a2 # 0 /\ a2 <= pj.project_life /\ a2 # a1
             THEN TrancheCharge(AugmentationCost, a2, year) ELSE Zero)

\* C20: Depreciation of a year is the sum of straight-line tranches over L =
\* min(depreciation_life_years, project_life) years: the initial CAPEX from year
\* 1, each augmentation from its own year to the end of its L years or of the
\* project; it is 0 in year 0 and the charges of the initial CAPEX sum to it.
C20_DepreciationByTranche ==
    /\ \A i \in 1..Len(rows) :
           /\ rows[i].Depreciation =
                  RAdd(TrancheCharge(pre.capex0, 1, rows[i].Year),
                       AugmentationCharges(rows[i].Year))
           /\ rows[i].Year = 0 => rows[i].Depreciation = Zero
    /\ pc = "done" =>
           RSum([i \in 1..Len(rows) |->
                    RSub(rows[i].Depreciation, AugmentationCharges(rows[i].Year))])
               = pre.capex0

\* C20 witness: a finished table of three years with augmentations in years 1
\* and 2: both tranches are charged in year 2, only the second in year 3
C20_Witness ==
    /\ pc = "done"
    /\ Len(rows) = 4
    /\ cx.augmentation_year_1 = 1
    /\ cx.augmentation_year_2 = 2
    /\ rows[3].Depreciation =
           RAdd(RDiv(pre.capex0, Int2R(2)), AugmentationCost)
    /\ rows[4].Depreciation = RDiv(AugmentationCost, Int2R(2))

\* the decommissioning cost, target of the cash reserve
ReserveTarget == RMul(cx.decommissioning_per_mw, pj.nominal_power_mw)

\* the balance at the opening of the year of row i
OpeningBalance(i) == IF i = 1 THEN Zero ELSE rows[i - 1].Reserve_Balance

\* C21: if the target is > 0 and project_life > 1, Reserve_Contribution is
\* never positive, is non-zero only in years 1..project_life-1 with an opening
\* balance below the target, and has there the magnitude
\* min(target/(project_life-1), target - balance); Reserve_Balance never
\* decreases from one year to the next and never exceeds the target.  If the
\* target is 0 or project_life is 1, every reserve column is 0 in every year.
C21_ReserveContributions ==
    IF Positive(ReserveTarget) /\ pj.project_life > 1
    THEN \A i \in 1..Len(rows) :
            LET t == rows[i].Year
                due == 1 <= t /\ t < pj.project_life
                           /\ RLt(OpeningBalance(i), ReserveTarget)
            IN  /\ RLe(rows[i].Reserve_Contribution, Zero)
                /\ rows[i].Reserve_Contribution # Zero => due
                /\ due => RNeg(rows[i].Reserve_Contribution) =
                              RMin(RDiv(ReserveTarget, Int2R(pj.project_life - 1)),
                                   RSub(ReserveTarget, OpeningBalance(i)))
                /\ RLe(OpeningBalance(i), rows[i].Reserve_Balance)
                /\ RLe(rows[i].Reserve_Balance, ReserveTarget)
    ELSE \A i \in 1..Len(rows) :
            /\ rows[i].Reserve_Contribution = Zero
            /\ rows[i].Reserve_Interest = Zero
            /\ rows[i].Reserve_Release = Zero
            /\ rows[i].Reserve_Balance = Zero
            /\ rows[i].Cash_Reserve = Zero

\* C21 witness: a finished run of three years with a positive target: equal
\* contributions in years 1 and 2 fill the reserve, none is made in year 3
C21_Witness ==
    /\ pc = "done"
    /\ pj.project_life = 3
    /\ Positive(ReserveTarget)
    /\ rows[2].Reserve_Contribution = RNeg(RDiv(ReserveTarget, Int2R(2)))
    /\ rows[3].Reserve_Contribution = rows[2].Reserve_Contribution
    /\ rows[3].Reserve_Balance = ReserveTarget
    /\ rows[4].Reserve_Contribution = Zero
    /\ rows[4].Reserve_Balance = ReserveTarget

\* the income lines of a row
IncomeLines(row) ==
    [Revenue_Total |-> row.Revenue_Total, EBITDA |-> row.EBITDA,
     Depreciation |-> row.Depreciation, EBT |-> row.EBT,
     Taxable_IRES |-> row.Taxable_IRES, Loss_CF_End |-> row.Loss_CF_End,
     IRES |-> row.IRES, IRAP |-> row.IRAP, Taxes |-> row.Taxes, DSCR |-> row.DSCR]

\* the run on the same inputs but for decommissioning_per_mw = d
RunWithDecommissioning(d) ==
    run_financial_model(pj, [cx EXCEPT !.decommissioning_per_mw = d], fp, rv, mf,
                        apply_degradation)

\* C22: the table of a finished run and the table of the run that differs from
\* it only in decommissioning_per_mw have the same Revenue_Total, EBITDA,
\* Depreciation, EBT, Taxable_IRES, Loss_CF_End, IRES, IRAP, Taxes and DSCR in
\* every year.
C22_ReserveLeavesIncomeLines ==
    pc = "done" =>
        \A d \in DecomSet \ {cx.decommissioning_per_mw} :
            LET other == RunWithDecommissioning(d)
            IN  /\ Len(other) = Len(rows)
                /\ \A i \in 1..Len(rows) : IncomeLines(rows[i]) = IncomeLines(other[i])

\* C22 witness: a finished run with a decommissioning cost, debt service and
\* taxes, whose cash columns differ from those of the run without the cost
C22_Witness ==
    /\ pc = "done"
    /\ Positive(cx.decommissioning_per_mw)
    /\ pj.project_life > 1
    /\ \E i \in 1..Len(rows) :
           /\ Positive(rows[i].Taxes)
           /\ rows[i].DSCR # None
           /\ rows[i].Cash_Reserve # RunWithDecommissioning(Zero)[i].Cash_Reserve
           /\ rows[i].Project_FCF # RunWithDecommissioning(Zero)[i].Project_FCF
    /\ rows[Len(rows)].Decommissioning #
           RunWithDecommissioning(Zero)[Len(rows)].Decommissioning

\* the merchant formula of a year >= 1: the degraded energy cycled between the
\* SOC limits, cycles_per_day times a day on every operating day, sold at the
\* escalated merchant price
MerchantFormula(year) ==
    LET degraded_energy ==
            RMul(pj.nominal_energy_mwh,
                 IF apply_degradation
                 THEN RPow(RSub(One, pj.degradation_rate), year - 1) ELSE One)
        operating_days == RMul(Int2R(365), RSub(One, pj.grid_system_unavailability))
        price == RMul(rv.merchant_selling_price_per_mwh,
                      RPow(RAdd(One, rv.merchant_price_escalation), year - 1))
    IN  RMul(RMul(RMul(RMul(degraded_energy, RSub(pj.soc_max, pj.soc_min)),
                       pj.cycles_per_day), operating_days), price)

EnabledAugmentationYears == {cx.augmentation_year_1, cx.augmentation_year_2} \ {0}

\* C24: CAPEX is 0 in every year but year 0, where it is the initial CAPEX plus
\* the land cost entered; Augmentation is capex x battery_share_of_capex x
\* augmentation_cost_pct in the year of each enabled augmentation setting and
\* 0 in every other year; with both settings enabled the finished table has
\* two years with an augmentation outflow.
C24_CapexAndAugmentationColumns ==
    /\ \A i \in 1..Len(rows) :
           /\ rows[i].CAPEX =
                  IF rows[i].Year = 0
                  THEN RAdd(RMul(pj.nominal_energy_mwh, cx.initial_capex_per_mw),
                            d_land_cost)
                  ELSE Zero
           /\ rows[i].Augmentation =
                  IF rows[i].Year \in EnabledAugmentationYears
                  THEN AugmentationCost ELSE Zero
    /\ (pc = "done" /\ cx.augmentation_year_1 # 0 /\ cx.augmentation_year_2 # 0) =>
           Cardinality({i \in 1..Len(rows) : rows[i].Augmentation # Zero}) = 2

\* the passes and iterations a call has behind it, counted over its positions:
\* the passes of the loop over the rates, then those of the loop over the
\* pairs, then the iterations of the bisection
IrrMeasure(position, frame) ==
    CASE position = "irr" -> 0
      [] position = "irr_grid" -> frame.i
      [] position = "irr_scan" -> Len(rates) + 1 + frame.i
      [] position = "irr_loop" -> 2 * Len(rates) + 2 + frame.k
      [] position = "irr_done" -> 2 * Len(rates) + 3 + MaxIter

\* the statement at the position of the call can be executed
IrrCanStep ==
    \/ pc = "irr"
    \/ pc = "irr_grid"
    \/ pc = "irr_scan"
    \/ pc = "irr_loop" /\ irr_frame.k <= MaxIter

\* C25: every call of _irr_first_root returns: the bisection loop never begins
\* more iterations than its cap, the loops of the bracket scan never pass the
\* end of the rate grid, every step of a call adds to the passes and iterations
\* behind it, whose number is bounded, and a call that has not returned can
\* take a step.
C25_IrrFirstRootTerminates ==
    /\ [](irr_frame.k <= MaxIter)
    /\ [](irr_frame.i <= Len(rates) + 1 /\ Len(irr_frame.npvs) <= Len(rates))
    /\ [][IrrMeasure(pc', irr_frame') > IrrMeasure(pc, irr_frame)]_vars
    /\ [](IrrMeasure(pc, irr_frame) <= 2 * Len(rates) + 3 + MaxIter)
    /\ [](pc # "irr_done" => IrrCanStep)
    /\ [](pc = "irr_done" => irr_frame.result # None)

\* C25 witness: a call that scanned the whole grid and returned a rate after
\* using up the iterations of the loop
C25_Witness ==
    /\ pc = "irr_done"
    /\ Len(irr_frame.npvs) = Len(rates)
    /\ irr_frame.k = MaxIter
    /\ irr_frame.result # None
    /\ irr_frame.result[1].irr # None

\* the step-by-step call returns what irr_first_root computes
IrrStepsAgree ==
    pc = "irr_done" => irr_frame.result = Some(irr_first_root(irr_frame.cashflows))

\* C26: in no row are Revenue_Tolling and Revenue_Merchant both non-zero:
\* Revenue_Merchant is non-zero only in years after tolling_1_end_year, and
\* Revenue_Tolling only in years tolling_1_start_year..tolling_1_end_year.
C26_TollingAndMerchantDisjoint ==
    \A i \in 1..Len(rows) :
        /\ rows[i].Revenue_Tolling = Zero \/ rows[i].Revenue_Merchant = Zero
        /\ rows[i].Revenue_Merchant # Zero => rows[i].Year > rv.tolling_1_end_year
        /\ rows[i].Revenue_Tolling # Zero =>
               /\ rv.tolling_1_start_year <= rows[i].Year
               /\ rows[i].Year <= rv.tolling_1_end_year

\* C26 witness: a finished run of three years with merchant_enabled and
\* tolling in years 1..2: tolling alone in years 1 and 2, merchant alone in
\* year 3
C26_Witness ==
    /\ pc = "done"
    /\ Len(rows) = 4
    /\ rv.merchant_enabled
    /\ rv.tolling_1_start_year = 1
    /\ rv.tolling_1_end_year = 2
    /\ Positive(rows[2].Revenue_Tolling) /\ rows[2].Revenue_Merchant = Zero
    /\ Positive(rows[3].Revenue_Tolling) /\ rows[3].Revenue_Merchant = Zero
    /\ rows[4].Revenue_Tolling = Zero /\ Positive(rows[4].Revenue_Merchant)

\* C27: in a finished run the Debt_Amount column, the amount credited to
\* Equity_CF of year 0 and the base of Debt_Fees, equals Debt_Close of year 0
\* and equals the sum of Principal over all the years of the debt schedule.
C27_FinancingConsistent ==
    pc = "done" =>
        /\ df[1].Equity_CF =
               RSub(RSub(RNeg(RSub(df[1].CAPEX, df[1].Debt_Amount)), df[1].Debt_Fees),
                    df[1].Municipality_Royalty_Upfront)
        /\ df[1].Debt_Fees = RMul(df[1].Debt_Amount, fp.debt_upfront_fees_pct)
        /\ df[1].Debt_Amount = df[1].Debt_Close
        /\ df[1].Debt_Amount =
               RSum([i \in 1..Len(pre.debt_df) |-> pre.debt_df[i].Principal])

\* C28 (in the exact arithmetic of this model, as C4): in a finished run the
\* Cash_Reserve column (Reserve_Contribution +
\* Reserve_Interest + Reserve_Release) sums to 0 over the years, Decommissioning
\* is 0 in every year but project_life, Cash_Reserve - Decommissioning sums to
\* minus the decommissioning cost, and if project_life > 1 the Reserve_Release
\* of the last year equals its Decommissioning.
C28_DecommissioningCashConserved ==
    /\ \A i \in 1..Len(rows) :
           /\ rows[i].Cash_Reserve =
                  RAdd(RAdd(rows[i].Reserve_Contribution, rows[i].Reserve_Interest),
                       rows[i].Reserve_Release)
           /\ rows[i].Decommissioning # Zero => rows[i].Year = pj.project_life
    /\ pc = "done" =>
           /\ RSum([i \in 1..Len(rows) |-> rows[i].Cash_Reserve]) = Zero
           /\ RSum([i \in 1..Len(rows) |->
                       RSub(rows[i].Cash_Reserve, rows[i].Decommissioning)])
                  = RNeg(ReserveTarget)
           /\ pj.project_life > 1 =>
                  rows[Len(rows)].Reserve_Release = rows[Len(rows)].Decommissioning

\* C28 witness: a finished run of more than one year with a decommissioning
\* cost, paid in the last year out of the reserve released in it, the earlier
\* years having contributed that amount
C28_Witness ==
    /\ pc = "done"
    /\ pj.project_life > 1
    /\ Positive(ReserveTarget)
    /\ rows[Len(rows)].Decommissioning = ReserveTarget
    /\ rows[Len(rows)].Cash_Reserve = ReserveTarget
    /\ RSum([i \in 1..(Len(rows) - 1) |-> rows[i].Cash_Reserve]) = RNeg(ReserveTarget)

\* C29: every interval (r0, r1) with r0 < r1 that the scan has appended has
\* NPV values of strictly opposite sign at its endpoints when they are
\* evaluated again, and no call returns the note "bracket_invalid".
C29_BracketInvalidUnreachable ==
    /\ \A b \in 1..Len(irr_frame.brackets) :
           LET r0 == irr_frame.brackets[b][1]
               r1 == irr_frame.brackets[b][2]
           IN  RLt(r0, r1) =>
                   /\ ProductNegative(npv(Some(r0), irr_frame.cashflows),
                                      npv(Some(r1), irr_frame.cashflows))
                   /\ ~ProductPositive(npv(Some(r0), irr_frame.cashflows),
                                       npv(Some(r1), irr_frame.cashflows))
    /\ pc = "irr_done" => irr_frame.result[1].note # Some("bracket_invalid")

\* C29 witness: a call that passed the tests on the endpoints of an interval
\* r0 < r1, bisected it and returned a rate strictly inside it
C29_Witness ==
    /\ pc = "irr_done"
    /\ irr_frame.k >= 1
    /\ Len(irr_frame.brackets) >= 1
    /\ RLt(irr_frame.brackets[1][1], irr_frame.brackets[1][2])
    /\ irr_frame.result[1].irr # None
    /\ RLt(irr_frame.brackets[1][1], irr_frame.result[1].irr[1])
    /\ RLt(irr_frame.result[1].irr[1], irr_frame.brackets[1][2])

\* C30: in a run with merchant_enabled, every year >= 1 in which tolling is
\* not active (tolling_1_start_year = 0, or tolling_1_end_year = 0, or the year
\* outside the window) has the Revenue_Merchant of the merchant formula.
C30_MerchantFillsTollingGaps ==
    rv.merchant_enabled =>
        \A i \in 1..Len(rows) :
            LET t == rows[i].Year
                tolling == /\ rv.tolling_1_start_year # 0
                           /\ rv.tolling_1_end_year # 0
                           /\ rv.tolling_1_start_year <= t
                           /\ t <= rv.tolling_1_end_year
            IN  (t >= 1 /\ ~tolling) => rows[i].Revenue_Merchant = MerchantFormula(t)

=============================================================================
